---- MODULE Spec2Model ----
(***************************************************************************)
(* Model of the CSV-to-PDF renderer, src/csv-to-pdf.py                     *)
(* (generate_pdf_from_csv), together with the part of the FPDF page model  *)
(* its calls rely on: add_page, cell, ln, multi_cell, the automatic page   *)
(* break, the (empty) footer hook and output.                              *)
(*                                                                         *)
(* Text is a sequence of one-character strings.  A CSV value is a text or  *)
(* NoneVal (csv.DictReader's value for a field a short row lacks); a       *)
(* column the header lacks is absent from every row.                       *)
(* Lengths are in millimetres, as in FPDF's default unit.                  *)
(***************************************************************************)
EXTENDS Integers, Sequences, FiniteSets, TLC

VARIABLES csv, rows, start_row, end_row, output_pdf,
          pc, selected_rows, i, pdf, ret, printed

\* The state of the enrichment step, process_csv_file of src/usinggroq.py and
\* of src/refine.py: the variant, the input file, the range asked for, the
\* rows in memory, the range after clamping, the row at hand, the position in
\* the function, the last message, the calls made to the model, the output
\* file and the number of the run.
VARIABLES variant, input_csv, arg_start, arg_end, e_rows, lo, hi, e_i, e_pc,
          e_printed, api_calls, output_csv, run

rvars == <<csv, rows, start_row, end_row, output_pdf,
           pc, selected_rows, i, pdf, ret, printed>>

evars == <<variant, input_csv, arg_start, arg_end, e_rows, lo, hi, e_i, e_pc,
           e_printed, api_calls, output_csv, run>>

vars == <<rvars, evars>>

\* ---------------------------------------------------------------- bounds
\* Largest number of rows of the CSV file.
MaxRows == 3
\* Largest number of characters of a java_code value.
MaxCodeLen == 4
\* Largest number of tokens of a refined_problem value.
MaxChunks == 3
\* Number of characters the token "w" (one word) of a problem text stands for.
WordLen == 50
\* Page height (FPDF's A4 page is 297 high; the model's page is shorter, so
\* that texts of a few lines reach the bottom of the page).
PageHeight == 90
\* Number of Courier characters that fit in the content width of a page.
PageCols == 2

\* ------------------------------------------------------ program constants
\* pdf.set_auto_page_break(auto=True, margin=15)
BottomMargin == 15
\* FPDF(): the default top margin (1 cm)
TopMargin == 10
\* textwrap.fill(refined_problem, width=80)
WrapWidth == 80

\* ------------------------------------------------------------------ text
NL == "\n"
SP == " "
NoneVal == <<"None">>
Whitespace == {SP, NL}

\* Python truthiness of a str-or-None value.
Truthy(s) == s # NoneVal /\ s # <<>>

\* s.strip() == "" for a text s.
IsBlank(s) == \A k \in 1..Len(s) : s[k] \in Whitespace

\* line.rstrip()
RECURSIVE RStrip(_)
RStrip(s) ==
    IF s = <<>> THEN <<>>
    ELSE IF s[Len(s)] \in Whitespace THEN RStrip(SubSeq(s, 1, Len(s) - 1))
    ELSE s

\* s.split('\n'): the segments between newlines, an empty text giving [''].
RECURSIVE SplitFrom(_, _, _)
SplitFrom(s, k, cur) ==
    IF k > Len(s) THEN <<cur>>
    ELSE IF s[k] = NL THEN <<cur>> \o SplitFrom(s, k + 1, <<>>)
    ELSE SplitFrom(s, k + 1, Append(cur, s[k]))

Split(s) == SplitFrom(s, 1, <<>>)

\* row.get(key, default)
Get(row, key, default) == IF key \in DOMAIN row THEN row[key] ELSE default

\* ------------------------------------------------- textwrap.fill(text, 80)
\* Number of characters a token of a problem text stands for.
TokLen(t) == IF t = "w" THEN WordLen ELSE 1

RECURSIVE TextLen(_)
TextLen(s) == IF s = <<>> THEN 0 ELSE TokLen(Head(s)) + TextLen(Tail(s))

\* The greedy line filling of textwrap: a chunk joins the current line while
\* the line stays within the width; whitespace is dropped at the end of every
\* line and at the start of every line but the first.  (Words are no longer
\* than the width here, so no word is broken.)
RECURSIVE WrapChunks(_, _, _, _)
WrapChunks(chunks, cur, lines, width) ==
    IF chunks = <<>>
    THEN IF RStrip(cur) = <<>> THEN lines ELSE Append(lines, RStrip(cur))
    ELSE LET c == Head(chunks) IN
         IF cur = <<>> /\ c \in Whitespace /\ lines # <<>>
         THEN WrapChunks(Tail(chunks), cur, lines, width)
         ELSE IF TextLen(cur) + TokLen(c) <= width \/ cur = <<>>
         THEN WrapChunks(Tail(chunks), Append(cur, c), lines, width)
         ELSE WrapChunks(chunks, <<>>,
                         IF RStrip(cur) = <<>> THEN lines
                         ELSE Append(lines, RStrip(cur)), width)

RECURSIVE Join(_)
Join(lines) ==
    IF lines = <<>> THEN <<>>
    ELSE IF Len(lines) = 1 THEN lines[1]
    ELSE lines[1] \o <<NL>> \o Join(Tail(lines))

Fill(text, width) == Join(WrapChunks(text, <<>>, <<>>, width))

\* ------------------------------------------------------------------ FPDF
\* A rendering operation as recorded in the page buffer: its kind ("add_page",
\* "cell" or "ln"), the page and the vertical position it applies at, its
\* height and width, the font in effect, its text, and the template section
\* (sec) and CSV row (row) it is issued for.
Op(op, p, h, w, txt, sec, row) ==
    [op |-> op, page |-> p.page, y |-> p.y, h |-> h, w |-> w,
     font |-> p.font, txt |-> txt, sec |-> sec, row |-> row]

\* FPDF(): no page yet, no font selected.
NewPdf == [page |-> 0, y |-> 0, font |-> <<"", "", 0>>, ops |-> <<>>]

\* The y position beyond which a cell starts a new page.
PageBreakTrigger == PageHeight - BottomMargin

\* FPDF.footer(), called for the page being closed; the class is used as it
\* is, and its footer draws nothing.
Footer(p) == p

\* pdf.add_page(): close the current page (footer), start the next one at
\* the top margin; the font is kept.
AddPage(p, sec, row) ==
    LET q == IF p.page > 0 THEN Footer(p) ELSE p
        r == [q EXCEPT !.page = q.page + 1, !.y = TopMargin]
    IN  [r EXCEPT !.ops = Append(r.ops, Op("add_page", r, 0, 0, <<>>, sec, row))]

\* pdf.set_font(family, style, size)
SetFont(p, family, style, size) == [p EXCEPT !.font = <<family, style, size>>]

\* pdf.ln(h): move down by h; no page break is considered.
Ln(p, h, sec, row) ==
    [p EXCEPT !.y = p.y + h,
              !.ops = Append(p.ops, Op("ln", p, h, 0, <<>>, sec, row))]

\* A cell that never breaks the page.
CellWithoutPageBreak(p, w, h, txt, sec, row) ==
    [p EXCEPT !.y = p.y + h,
              !.ops = Append(p.ops, Op("cell", p, h, w, txt, sec, row))]

\* pdf.cell(w, h, txt, ln=True): a page break first when the cell would pass
\* the trigger, then the text on one line at the current position, then down
\* by h.  The text is never wrapped.
Cell(p, w, h, txt, sec, row) ==
    LET q == IF p.y + h > PageBreakTrigger THEN AddPage(p, "auto", row) ELSE p
    IN  [q EXCEPT !.y = q.y + h,
                  !.ops = Append(q.ops, Op("cell", q, h, w, txt, sec, row))]

\* pdf.multi_cell(0, h, txt): one cell per line of the text.
RECURSIVE CellLines(_, _, _, _, _)
CellLines(p, h, lines, sec, row) ==
    IF lines = <<>> THEN p
    ELSE CellLines(Cell(p, 0, h, Head(lines), sec, row), h, Tail(lines), sec, row)

MultiCell(p, h, txt, sec, row) == CellLines(p, h, Split(txt), sec, row)

\* Closing the document at output: the last page gets its footer.
Close(p) == IF p.page > 0 THEN Footer(p) ELSE p

\* ------------------------------------------- generate_pdf_from_csv: a row
\* `x` alone as the test: a value of whitespace only counts as text.
HasTextUnstripped(s) == Truthy(s)

\* `x and x.strip()`: the value holds text other than whitespace.
HasText(s) == Truthy(s) /\ ~IsBlank(s)

\* f"Problem {i-start_row+1}: {directory_name}"
Title(n, directory_name) == <<"Problem", ToString(n), ":">> \o directory_name

\* The title line.
TitleSection(p, row, n, r) ==
    LET directory_name == Get(row, "directory_name", <<"Row_", ToString(r)>>)
        p1 == SetFont(SetFont(p, "Arial", "", 11), "Arial", "B", 16)
        p2 == Cell(p1, 200, 10, Title(n, directory_name), "title", r)
    IN  Ln(p2, 10, "title", r)

\* The "Problem Statement:" heading and the wrapped text or its placeholder.
ProblemSection(p, row, r) ==
    LET refined_problem == Get(row, "refined_problem", <<>>)
        p1 == Cell(SetFont(p, "Arial", "B", 14), 200, 10,
                   <<"Problem Statement:">>, "problem_heading", r)
        p2 == Ln(SetFont(p1, "Arial", "", 11), 5, "problem_heading", r)
        p3 == IF HasText(refined_problem)
              THEN MultiCell(p2, 8, Fill(refined_problem, WrapWidth), "problem", r)
              ELSE Cell(p2, 200, 10, <<"No problem statement available">>,
                        "problem_placeholder", r)
    IN  Ln(p3, 10, "problem", r)

\* A line loop that skips the lines that are empty.
CodeLineSkippingBlank(p, line, r) ==
    IF RStrip(line) # <<>> THEN Cell(p, 0, 6, RStrip(line), "code", r) ELSE p

\* One line of the code: the line without its trailing whitespace in a cell,
\* or a vertical step for a line that is empty then.
CodeLine(p, line, r) ==
    LET clean_line == RStrip(line)
    IN  IF clean_line # <<>> THEN Cell(p, 0, 6, clean_line, "code", r)
        ELSE Ln(p, 6, "code", r)

RECURSIVE CodeLines(_, _, _)
CodeLines(p, lines, r) ==
    IF lines = <<>> THEN p
    ELSE CodeLines(CodeLine(p, Head(lines), r), Tail(lines), r)

\* The "Java Code:" heading and the code, line by line, or its placeholder.
CodeSection(p, row, r) ==
    LET java_code == Get(row, "java_code", <<>>)
        p1 == Cell(SetFont(p, "Arial", "B", 14), 200, 10,
                   <<"Java Code:">>, "code_heading", r)
        p2 == Ln(SetFont(p1, "Courier", "", 10), 5, "code_heading", r)
    IN  IF HasText(java_code)
        THEN CodeLines(p2, Split(java_code), r)
        ELSE Cell(SetFont(p2, "Arial", "", 11), 200, 10,
                  <<"No Java code available">>, "code_placeholder", r)

\* A separator after every row, the last one too.
HasSeparatorAlways(r, last) == r <= last

\* `if i < end_row`: a separator follows the row.
HasSeparator(r, last) == r < last

\* The separator between problems.
Separator(p, r) ==
    LET p1 == SetFont(Ln(p, 15, "separator", r), "Arial", "B", 12)
        p2 == Cell(p1, 200, 10, <<"=*80">>, "separator", r)
    IN  Ln(p2, 15, "separator", r)

\* A loop body that opens a page for the first row only and lets the next
\* rows follow on the current page.
RenderRowContinuous(p, row, n, r, last) ==
    LET p1 == IF p.page = 0 THEN AddPage(p, "explicit", r) ELSE p
        p2 == TitleSection(p1, row, n, r)
        p3 == ProblemSection(p2, row, r)
        p4 == CodeSection(p3, row, r)
    IN  IF HasSeparator(r, last) THEN Separator(p4, r) ELSE p4

\* The body of the loop for row number r, the n-th of the selection.
RenderRow(p, row, n, r, last) ==
    LET p1 == AddPage(p, "explicit", r)
        p2 == TitleSection(p1, row, n, r)
        p3 == ProblemSection(p2, row, r)
        p4 == CodeSection(p3, row, r)
    IN  IF HasSeparator(r, last) THEN Separator(p4, r) ELSE p4

\* ------------------------------------ generate_pdf_from_csv: the range
\* A start check that lets row number 0 pass.
StartOutOfRangeFromZero(s, total) == s < 0 \/ s > total

\* `start_row < 1 or start_row > len(rows)`
StartOutOfRange(s, total) == s < 1 \/ s > total

\* `end_row < start_row or end_row > len(rows)`
EndInvalid(s, e, total) == e < s \/ e > total

\* A slice bound of Python, for a list of n elements.
SliceBound(k, n) ==
    IF k < 0 THEN (IF k + n < 0 THEN 0 ELSE k + n) ELSE (IF k > n THEN n ELSE k)

\* The slice rows[start_row:end_row], which starts one row late.
SelectedRowsOffByOne(rs, s, e) ==
    SubSeq(rs, SliceBound(s, Len(rs)) + 1, SliceBound(e, Len(rs)))

\* rows[start_row - 1:end_row]
SelectedRows(rs, s, e) ==
    SubSeq(rs, SliceBound(s - 1, Len(rs)) + 1, SliceBound(e, Len(rs)))

\* ---------------------------------------------------------------- inputs
Columns == {"directory_name", "refined_problem", "java_code"}

\* All texts of at most n characters of an alphabet.
Texts(alphabet, n) == UNION {[1..k -> alphabet] : k \in 0..n}

\* The java_code values: code characters, spaces and newlines.
Codes == Texts({"x", SP, NL}, MaxCodeLen)

\* The refined_problem values: words and spaces, two words being separated.
Bodies ==
    {b \in Texts({"w", SP}, MaxChunks) :
        \A k \in 1..(Len(b) - 1) : ~(b[k] = "w" /\ b[k + 1] = "w")}

\* A column the header lacks.
Missing == <<"Missing">>

\* The values without content.
Empties == {Missing, NoneVal, <<>>, <<SP>>}

\* An ordinary row, number k: a name, a one-line text, a one-line code.
Ordinary(k) ==
    [directory_name |-> <<"d", ToString(k)>>, refined_problem |-> <<"w">>,
     java_code |-> <<"x">>]

\* The rows that differ from an ordinary row number k: in the name, in the
\* text, in the code, or in having neither text nor code.
Probes(k) ==
    {[Ordinary(k) EXCEPT !.directory_name = v] : v \in {Missing, NoneVal, <<>>}}
    \cup {[Ordinary(k) EXCEPT !.refined_problem = v] : v \in Bodies \cup Empties}
    \cup {[Ordinary(k) EXCEPT !.java_code = v] : v \in Codes \cup Empties}
    \cup {[Ordinary(k) EXCEPT !.refined_problem = v, !.java_code = u] :
            v \in Empties, u \in Empties}

\* What csv.DictReader yields for a file of `total` rows whose row k is the
\* probe and whose other rows are ordinary: every row has the columns of the
\* header, and only those.
ReadRows(total, k, probe) ==
    LET header == {c \in Columns : probe[c] # Missing}
    IN  [n \in 1..total |->
            [c \in header |-> IF n = k THEN probe[c] ELSE Ordinary(n)[c]]]

\* The enrichment step is not running.
EnrichIdle ==
    /\ variant = "groq"
    /\ input_csv = [exists |-> "missing", rows |-> <<>>]
    /\ arg_start = 1
    /\ arg_end = 1
    /\ e_rows = <<>>
    /\ lo = 0
    /\ hi = 0
    /\ e_i = 0
    /\ e_pc = "idle"
    /\ e_printed = "nothing"
    /\ api_calls = <<>>
    /\ output_csv = [state |-> "absent", rows |-> <<>>]
    /\ run = 0

\* ------------------------------------------------------------ the program
Init ==
    /\ EnrichIdle
    /\ \/ /\ csv \in {"missing", "unreadable"}
          /\ rows = <<>>
          /\ start_row = 1
          /\ end_row = 1
       \/ /\ csv = "ok"
          /\ \E total \in 0..MaxRows :
                \/ total = 0 /\ rows = <<>>
                \/ \E k \in 1..total : \E probe \in Probes(k) :
                      rows = ReadRows(total, k, probe)
          /\ start_row \in 0..(MaxRows + 1)
          /\ end_row \in 0..(MaxRows + 1)
    /\ output_pdf = [state |-> "absent", doc |-> <<>>]
    /\ pc = "start"
    /\ selected_rows = <<>>
    /\ i = 0
    /\ pdf = NewPdf
    /\ ret = "running"
    /\ printed = "nothing"

\* The call returns False after printing a message.
Fail(message) ==
    /\ pc' = "done"
    /\ ret' = "False"
    /\ printed' = message
    /\ UNCHANGED <<evars, csv, rows, start_row, end_row, output_pdf, selected_rows, i, pdf>>

\* `if not os.path.exists(csv_file)`
CsvNotFound ==
    /\ pc = "start"
    /\ csv = "missing"
    /\ Fail("csv_not_found")

\* `except Exception` around the reading of the file
ReadError ==
    /\ pc = "start"
    /\ csv = "unreadable"
    /\ Fail("read_error")

\* `if start_row < 1 or start_row > len(rows)`
RejectStart ==
    /\ pc = "start"
    /\ csv = "ok"
    /\ StartOutOfRange(start_row, Len(rows))
    /\ Fail("start_out_of_range")

\* `if end_row < start_row or end_row > len(rows)`
RejectEnd ==
    /\ pc = "start"
    /\ csv = "ok"
    /\ ~StartOutOfRange(start_row, Len(rows))
    /\ EndInvalid(start_row, end_row, Len(rows))
    /\ Fail("end_invalid")

\* The range is accepted: the rows are selected and the document is created.
SelectRows ==
    /\ pc = "start"
    /\ csv = "ok"
    /\ ~StartOutOfRange(start_row, Len(rows))
    /\ ~EndInvalid(start_row, end_row, Len(rows))
    /\ selected_rows' = SelectedRows(rows, start_row, end_row)
    /\ i' = start_row
    /\ pdf' = NewPdf
    /\ pc' = IF SelectedRows(rows, start_row, end_row) = <<>> THEN "save" ELSE "loop"
    /\ UNCHANGED <<evars, csv, rows, start_row, end_row, output_pdf, ret, printed>>

\* One iteration of `for i, row in enumerate(selected_rows, start=start_row)`.
ProcessRow ==
    /\ pc = "loop"
    /\ LET n == i - start_row + 1
       IN  /\ pdf' = RenderRow(pdf, selected_rows[n], n, i, end_row)
           /\ pc' = IF n < Len(selected_rows) THEN "loop" ELSE "save"
    /\ i' = i + 1
    /\ UNCHANGED <<evars, csv, rows, start_row, end_row, output_pdf, selected_rows,
                   ret, printed>>

\* What pdf.output(output_pdf) leaves at the destination: the whole document;
\* nothing new when the file cannot be opened; a part of the document when
\* the writing stops.
Written(p, how) ==
    IF how = "ok" THEN [state |-> "complete", doc |-> Close(p).ops]
    ELSE IF how = "open_fails" THEN output_pdf
    ELSE [state |-> "partial", doc |-> <<>>]

\* A return of True whatever pdf.output did.
ReturnedTrue(how) == "True"

\* The value returned after pdf.output: True, or False from `except`.
Returned(how) == IF how = "ok" THEN "True" ELSE "False"

\* pdf.output(output_pdf) succeeds.
OutputOk ==
    /\ pc = "save"
    /\ output_pdf' = Written(pdf, "ok")
    /\ ret' = Returned("ok")
    /\ printed' = "pdf_generated"
    /\ pc' = "done"
    /\ UNCHANGED <<evars, csv, rows, start_row, end_row, selected_rows, i, pdf>>

\* pdf.output(output_pdf) raises.
OutputFail ==
    /\ pc = "save"
    /\ \E how \in {"open_fails", "write_fails"} :
          /\ output_pdf' = Written(pdf, how)
          /\ ret' = Returned(how)
    /\ printed' = "pdf_error"
    /\ pc' = "done"
    /\ UNCHANGED <<evars, csv, rows, start_row, end_row, selected_rows, i, pdf>>

Next ==
    \/ CsvNotFound
    \/ ReadError
    \/ RejectStart
    \/ RejectEnd
    \/ SelectRows
    \/ ProcessRow
    \/ OutputOk
    \/ OutputFail

Spec == Init /\ [][Next]_vars

\* =========================================================================
\* The enrichment step: src/usinggroq.py (variant "groq") and src/refine.py
\* (variant "ollama").
\*
\* A README or refined text is a sequence of tokens, each a run of n
\* characters of one kind: "w" word characters, "s" whitespace, "h" the
\* header mark '#', "tag" an HTML tag.
\* =========================================================================

\* -------------------------------------------------------- bounds (enrichment)
\* Largest number of rows of the table.
MaxERows == 2
\* Lengths of the words of a README: short, middle and long.
WordShort == 5
WordMid == 60
WordLong == 120

\* ------------------------------------------- program constants (enrichment)
\* `if len(cleaned_content.split()) < 10`
MinWords == 10
\* usinggroq.py: `return cleaned_content[:1000]`
GroqFallbackLimit == 1000
\* refine.py: `return cleaned_content[:500]`
OllamaFallbackLimit == 500

Tok(t, n) == [t |-> t, n |-> n]

\* Python's None among the values of the table and the results of the model.
ENone == <<Tok("None", 0)>>

\* len(text)
RECURSIVE Chars(_)
Chars(text) == IF text = <<>> THEN 0 ELSE Head(text).n + Chars(Tail(text))

\* text.strip() == "" for a text.
EBlank(text) == \A k \in 1..Len(text) : text[k].t = "s"

\* `not x or x.strip() == ""`: None, empty or whitespace only.
IsEmptyValue(v) == v = ENone \/ v = <<>> \/ EBlank(v)

\* re.sub(r'<[^>]+>', '', text)
RemoveTags(text) == SelectSeq(text, LAMBDA k : k.t # "tag")

\* re.sub(r'#+\s*', '', text): the header marks go, with the whitespace that
\* follows them.
RECURSIVE RemoveHeaders(_, _)
RemoveHeaders(text, after) ==
    IF text = <<>> THEN <<>>
    ELSE IF Head(text).t = "h" THEN RemoveHeaders(Tail(text), TRUE)
    ELSE IF Head(text).t = "s" /\ after THEN RemoveHeaders(Tail(text), TRUE)
    ELSE <<Head(text)>> \o RemoveHeaders(Tail(text), FALSE)

\* re.sub(r'\s+', ' ', text): every run of whitespace becomes one space;
\* runs of word characters that have become neighbours are one word.
RECURSIVE Collapse(_)
Collapse(text) ==
    IF Len(text) < 2
    THEN (IF text # <<>> /\ text[1].t = "s" THEN <<Tok("s", 1)>> ELSE text)
    ELSE IF text[1].t = "s" /\ text[2].t = "s"
    THEN Collapse(<<Tok("s", 1)>> \o Tail(Tail(text)))
    ELSE IF text[1].t = "w" /\ text[2].t = "w"
    THEN Collapse(<<Tok("w", text[1].n + text[2].n)>> \o Tail(Tail(text)))
    ELSE IF text[1].t = "s"
    THEN <<Tok("s", 1)>> \o Collapse(Tail(text))
    ELSE <<text[1]>> \o Collapse(Tail(text))

\* text.strip(), for a text whose whitespace is collapsed.
EStrip(text) ==
    LET a == IF text # <<>> /\ text[1].t = "s" THEN Tail(text) ELSE text
    IN  IF a # <<>> /\ a[Len(a)].t = "s" THEN SubSeq(a, 1, Len(a) - 1) ELSE a

\* clean_text_markdown(text), on texts without links, images, emphasis or
\* code marks (the substitutions for those leave such a text as it is).
clean_text_markdown(text) ==
    IF text = ENone \/ text = <<>> THEN <<>>
    ELSE EStrip(Collapse(RemoveHeaders(RemoveTags(text), FALSE)))

\* len(text.split())
WordCount(text) == Len(SelectSeq(text, LAMBDA k : k.t = "w"))

\* text[:limit]
RECURSIVE Take(_, _)
Take(text, limit) ==
    IF text = <<>> \/ limit <= 0 THEN <<>>
    ELSE IF Head(text).n <= limit
    THEN <<Head(text)>> \o Take(Tail(text), limit - Head(text).n)
    ELSE <<Tok(Head(text).t, limit)>>

\* ------------------------------------------------ refine_problem_statement
\* "No README content available"
NoReadme ==
    <<Tok("w", 2), Tok("s", 1), Tok("w", 6), Tok("s", 1), Tok("w", 7),
      Tok("s", 1), Tok("w", 9)>>

\* The README is given to the model: it has content, and ten words or more
\* once cleaned.
NeedsApi(readme_content) ==
    /\ ~IsEmptyValue(readme_content)
    /\ WordCount(clean_text_markdown(readme_content)) >= MinWords

\* The length the cleaned text is cut to when the model fails.
FallbackLimit(v) == IF v = "groq" THEN GroqFallbackLimit ELSE OllamaFallbackLimit

\* The cleaned text kept whole, whatever its length.
FallbackWhole(cleaned_content, v) == cleaned_content

\* The text used when the model fails: `cleaned_content[:1000]` (`[:500]`).
Fallback(cleaned_content, v) == Take(cleaned_content, FallbackLimit(v))

\* refine_problem_statement(readme_content), `refined_text` being what
\* call_groq_api (call_ollama_gemma) returns if it is called: ENone on a
\* failure, else the stripped text of the answer.
refine_problem_statement(readme_content, refined_text, v) ==
    IF IsEmptyValue(readme_content) THEN NoReadme
    ELSE LET cleaned_content == clean_text_markdown(readme_content)
         IN  IF WordCount(cleaned_content) < MinWords THEN cleaned_content
             ELSE IF refined_text = ENone THEN Fallback(cleaned_content, v)
             ELSE refined_text

\* What the model may return: a failure, an empty answer, a text.
ApiResults == {ENone, <<>>, <<Tok("w", 7)>>}

\* -------------------------------------------------------- process_csv_file
\* row[key] = value
SetField(row, key, value) ==
    [c \in DOMAIN row \cup {key} |-> IF c = key THEN value ELSE row[c]]

\* The rows as read: usinggroq.py gives every row a refined_problem, empty if
\* the file has none; refine.py takes the rows as they are.
LoadRows(file_rows, v) ==
    [n \in 1..Len(file_rows) |->
        IF v = "groq" /\ "refined_problem" \notin DOMAIN file_rows[n]
        THEN SetField(file_rows[n], "refined_problem", <<>>)
        ELSE file_rows[n]]

\* The range processed: usinggroq.py clamps the range asked for, refine.py
\* processes every row.
ClampedStart(s, v) == IF v = "groq" THEN (IF s < 1 THEN 1 ELSE s) ELSE 1

ClampedEnd(e, total, v) == IF v = "groq" THEN (IF e > total THEN total ELSE e) ELSE total

\* Every row is refined whatever its refined_problem.
ToProcessAlways(row, v) == TRUE

\* `if not row.get('refined_problem') or row['refined_problem'].strip() == ""`
\* in usinggroq.py; refine.py has no such test and processes every row.
ToProcess(row, v) ==
    v = "ollama" \/ IsEmptyValue(IF "refined_problem" \in DOMAIN row
                                 THEN row["refined_problem"] ELSE ENone)

\* The key csv.DictReader files the fields of a row under that the header has
\* no name for (restkey, None).
RestKey == "None"

\* `['x']`: the list of the fields beyond the header, one field of one character.
ERest == <<Tok("list", 1)>>

IsList(v) == v # <<>> /\ v[1].t = "list"

\* The text of a value as the csv writer writes it: None is written as an empty
\* field, a list as its str(), which has four characters more than the field.
WrittenValue(v) ==
    IF v = ENone THEN <<>>
    ELSE IF IsList(v) THEN <<Tok("w", v[1].n + 4)>>
    ELSE v

\* `fieldnames = list(rows[0].keys())`
FieldNames(rs) == DOMAIN rs[1]

\* csv.DictWriter raises ValueError for a row with a key that is no field name.
Writable(rs) == \A n \in 1..Len(rs) : DOMAIN rs[n] \subseteq FieldNames(rs)

\* What csv.DictWriter writes and csv.DictReader reads back: the columns are
\* those of the first row, the None key being written as a column with an
\* empty name; a row without a value for a column gets an empty field.
WriteRows(rs) ==
    [n \in 1..Len(rs) |->
        [d \in {IF c = RestKey THEN "" ELSE c : c \in FieldNames(rs)} |->
            LET c == IF d = "" /\ RestKey \in FieldNames(rs) THEN RestKey ELSE d
            IN  IF c \in DOMAIN rs[n] THEN WrittenValue(rs[n][c]) ELSE <<>>]]

\* ----------------------------------------------------- enrichment inputs
\* A README of `n` words of `len` characters each, after the markup `decor`.
Readme(decor, n, len) ==
    decor \o [k \in 1..(2 * n) |-> IF k % 2 = 1 THEN Tok("w", len) ELSE Tok("s", 1)]

\* Markup before the text: a header mark, a blank and an HTML tag.
Decor == <<Tok("h", 2), Tok("s", 1), Tok("tag", 3)>>

\* A column the file does not have.
EMissing == <<Tok("Missing", 0)>>

\* A README the model is asked about, short enough to be kept whole.
OrdReadme == Readme(<<>>, MinWords, WordShort)

\* A refined_problem written by an earlier run.
Done == <<Tok("w", 3)>>

Readmes ==
    {Readme(d, n, len) : d \in {<<>>, Decor}, n \in {0, 1, MinWords - 1, MinWords},
                         len \in {WordShort, WordMid, WordLong}}
        \cup {ENone, EMissing, <<Tok("s", 2)>>}

RefinedValues == {EMissing, ENone, <<>>, <<Tok("s", 1)>>, Done}

ERow(k, readme, rp) ==
    [directory_name |-> <<Tok("w", k)>>, readme_content |-> readme,
     java_code |-> <<Tok("w", 4)>>, refined_problem |-> rp]

\* The rows that vary: a README of the catalogue with nothing refined yet,
\* an ordinary README with one of the refined_problem values, or an ordinary
\* row with one field more than the header has columns.
EProbes ==
    {[readme |-> r, rp |-> <<>>, rest |-> FALSE] : r \in Readmes}
        \cup {[readme |-> OrdReadme, rp |-> v, rest |-> FALSE] : v \in RefinedValues}
        \cup {[readme |-> OrdReadme, rp |-> v, rest |-> TRUE] : v \in {<<>>, Done}}

\* The file as csv.DictReader reads it: row `k` is the probe, the other rows
\* are ordinary and have the refined_problem `others`; a column that is
\* missing is missing in every row.
Table(total, k, probe, others) ==
    LET full == [n \in 1..total |->
                    IF n = k THEN ERow(n, probe.readme, probe.rp)
                    ELSE ERow(n, OrdReadme, others)]
        cols == {c \in DOMAIN ERow(1, <<>>, <<>>) :
                    /\ ~(c = "readme_content" /\ probe.readme = EMissing)
                    /\ ~(c = "refined_problem" /\ probe.rp = EMissing)}
    IN  [n \in 1..total |->
            [c \in cols \cup (IF n = k /\ probe.rest THEN {RestKey} ELSE {}) |->
                IF c = RestKey THEN ERest ELSE full[n][c]]]

Tables ==
    {<<>>} \cup
    {Table(total, k, probe, others) :
        total \in 1..MaxERows, k \in 1..MaxERows, probe \in EProbes,
        others \in {<<>>, Done}}

\* ------------------------------------------------ enrichment state machine
RenderIdle ==
    /\ csv = "missing" /\ rows = <<>> /\ start_row = 1 /\ end_row = 1
    /\ output_pdf = [state |-> "absent", doc |-> <<>>] /\ pc = "idle" /\ selected_rows = <<>> /\ i = 0
    /\ pdf = NewPdf /\ ret = "none" /\ printed = "nothing"

EnrichInit ==
    /\ RenderIdle
    /\ variant \in {"groq", "ollama"}
    /\ \E exists \in {"ok", "missing", "unreadable"} :
          \E t \in Tables :
              /\ (exists # "ok" => t = <<>>)
              /\ input_csv = [exists |-> exists, rows |-> t]
    /\ arg_start \in 0..(MaxERows + 1)
    /\ arg_end \in 0..(MaxERows + 1)
    /\ (variant = "ollama" => arg_start = 1 /\ arg_end = 1)
    /\ e_rows = <<>> /\ lo = 0 /\ hi = 0 /\ e_i = 0
    /\ e_pc = "start" /\ e_printed = "nothing" /\ api_calls = <<>>
    /\ output_csv = [state |-> "absent", rows |-> <<>>]
    /\ run = 1

EStop(msg) ==
    /\ e_pc' = "done"
    /\ e_printed' = msg
    /\ UNCHANGED <<rvars, variant, input_csv, arg_start, arg_end, e_rows, lo, hi,
                   e_i, api_calls, output_csv, run>>

\* `if not os.path.exists(input_csv)`
EInputNotFound ==
    /\ e_pc = "start"
    /\ input_csv.exists = "missing"
    /\ EStop("input_not_found")

\* The file cannot be read.
EReadError ==
    /\ e_pc = "start"
    /\ input_csv.exists = "unreadable"
    /\ EStop("read_error")

\* `if not rows`
ENoData ==
    /\ e_pc = "start"
    /\ input_csv.exists = "ok"
    /\ input_csv.rows = <<>>
    /\ EStop("no_data")

\* `if start_row > end_row`, after the clamping
EBadRange ==
    /\ e_pc = "start"
    /\ input_csv.exists = "ok"
    /\ input_csv.rows # <<>>
    /\ ClampedStart(arg_start, variant) > ClampedEnd(arg_end, Len(input_csv.rows), variant)
    /\ EStop("start_gt_end")

\* The rows are read and the range is clamped.
EStart ==
    /\ e_pc = "start"
    /\ input_csv.exists = "ok"
    /\ input_csv.rows # <<>>
    /\ ClampedStart(arg_start, variant) <= ClampedEnd(arg_end, Len(input_csv.rows), variant)
    /\ e_rows' = LoadRows(input_csv.rows, variant)
    /\ lo' = ClampedStart(arg_start, variant)
    /\ hi' = ClampedEnd(arg_end, Len(input_csv.rows), variant)
    /\ e_i' = ClampedStart(arg_start, variant)
    /\ e_pc' = "loop"
    /\ UNCHANGED <<rvars, variant, input_csv, arg_start, arg_end, e_printed,
                   api_calls, output_csv, run>>

\* The loop goes to the next row, or to the writing after the last one.
EAdvance ==
    /\ e_i' = e_i + 1
    /\ e_pc' = IF e_i = hi THEN "write" ELSE "loop"

\* `row.get('readme_content', '')`
ReadmeOf(row) ==
    IF "readme_content" \in DOMAIN row THEN row["readme_content"] ELSE <<>>

\* "Row already has refined data, skipping"
ESkipRow ==
    /\ e_pc = "loop"
    /\ ~ToProcess(e_rows[e_i], variant)
    /\ EAdvance
    /\ UNCHANGED <<rvars, variant, input_csv, arg_start, arg_end, e_rows, lo, hi,
                   e_printed, api_calls, output_csv, run>>

\* A row refined without the model: no README, or fewer than ten words.
ERefineLocal ==
    /\ e_pc = "loop"
    /\ ToProcess(e_rows[e_i], variant)
    /\ ~NeedsApi(ReadmeOf(e_rows[e_i]))
    /\ e_rows' = [e_rows EXCEPT ![e_i] =
                     SetField(@, "refined_problem",
                              refine_problem_statement(ReadmeOf(@), ENone, variant))]
    /\ EAdvance
    /\ UNCHANGED <<rvars, variant, input_csv, arg_start, arg_end, lo, hi,
                   e_printed, api_calls, output_csv, run>>

\* A row refined by the model, whatever the model returns.
ERefineApi ==
    /\ e_pc = "loop"
    /\ ToProcess(e_rows[e_i], variant)
    /\ NeedsApi(ReadmeOf(e_rows[e_i]))
    /\ \E refined_text \in ApiResults :
          /\ e_rows' = [e_rows EXCEPT ![e_i] =
                           SetField(@, "refined_problem",
                                    refine_problem_statement(ReadmeOf(@), refined_text, variant))]
          /\ api_calls' = Append(api_calls, [run |-> run, row |-> e_i, result |-> refined_text])
    /\ EAdvance
    /\ UNCHANGED <<rvars, variant, input_csv, arg_start, arg_end, lo, hi,
                   e_printed, output_csv, run>>

\* The table is written.
EWriteOk ==
    /\ e_pc = "write"
    /\ Writable(e_rows)
    /\ output_csv' = [state |-> "written", rows |-> WriteRows(e_rows)]
    /\ e_pc' = "done"
    /\ e_printed' = "saved"
    /\ UNCHANGED <<rvars, variant, input_csv, arg_start, arg_end, e_rows, lo, hi,
                   e_i, api_calls, run>>

\* The writing fails: the file could not be opened, or is left incomplete (an
\* input/output error, or a row that is not Writable).
EWriteFail ==
    /\ e_pc = "write"
    /\ \/ UNCHANGED output_csv
       \/ output_csv' = [state |-> "partial", rows |-> <<>>]
    /\ e_pc' = "done"
    /\ e_printed' = "write_error"
    /\ UNCHANGED <<rvars, variant, input_csv, arg_start, arg_end, e_rows, lo, hi,
                   e_i, api_calls, run>>

\* The program is run again on the file it wrote, with the same range; the
\* calls of the first run stay on record.
ERerun ==
    /\ e_pc = "done"
    /\ run = 1
    /\ e_printed = "saved"
    /\ input_csv' = [exists |-> "ok", rows |-> output_csv.rows]
    /\ run' = 2
    /\ e_rows' = <<>> /\ lo' = 0 /\ hi' = 0 /\ e_i' = 0
    /\ e_pc' = "start" /\ e_printed' = "nothing"
    /\ UNCHANGED <<rvars, variant, arg_start, arg_end, api_calls, output_csv>>

EnrichNext ==
    \/ EInputNotFound
    \/ EReadError
    \/ ENoData
    \/ EBadRange
    \/ EStart
    \/ ESkipRow
    \/ ERefineLocal
    \/ ERefineApi
    \/ EWriteOk
    \/ EWriteFail
    \/ ERerun

EnrichSpec == EnrichInit /\ [][EnrichNext]_vars

\* ---------------------------------------------------------------- claims
\* The loop has run for every selected row.
Rendered == pc = "save" \/ (pc = "done" /\ printed \in {"pdf_generated", "pdf_error"})

\* The loop is running or has run.
Rendering == pc = "loop" \/ Rendered

\* The operations of the page buffer of one kind and section.
OpsOf(kind, sec) == SelectSeq(pdf.ops, LAMBDA o : o.op = kind /\ o.sec = sec)

\* The lines of a code that are cells: without trailing whitespace, not empty.
RECURSIVE NonBlank(_)
NonBlank(lines) ==
    IF lines = <<>> THEN <<>>
    ELSE IF IsBlank(Head(lines)) THEN NonBlank(Tail(lines))
    ELSE <<RStrip(Head(lines))>> \o NonBlank(Tail(lines))

\* The texts of the cells issued for row number r in one section, in order.
CellTexts(r, sec) ==
    LET cells == SelectSeq(pdf.ops, LAMBDA o : o.op = "cell" /\ o.row = r /\ o.sec = sec)
    IN  [k \in 1..Len(cells) |-> cells[k].txt]

\* The code lines a row is to show.
CodeTextsOf(row) ==
    LET java_code == Get(row, "java_code", <<>>)
    IN  IF java_code # NoneVal /\ java_code # <<>> /\ ~IsBlank(java_code)
        THEN NonBlank(Split(java_code)) ELSE <<>>

\* C1: the rendered records are exactly the records start..end, once each and
\* in index order: the title lines are those of rows start, start+1, ... (their
\* ordinal and the row's name), the code lines under each title are those of
\* that row, nothing is issued for a row outside the range, and after the loop
\* there are end - start + 1 rendered records.
C1_SelectedRecordsInOrder ==
    Rendering =>
        LET titles == OpsOf("cell", "title")
            n == IF Rendered THEN end_row - start_row + 1 ELSE i - start_row
        IN  /\ Len(titles) = n
            /\ Len(OpsOf("add_page", "explicit")) = n
            /\ \A j \in 1..n :
                  LET r == start_row + j - 1
                  IN  /\ titles[j].row = r
                      /\ titles[j].txt =
                            Title(j, Get(rows[r], "directory_name", <<"Row_", ToString(r)>>))
                      /\ CellTexts(r, "code") = CodeTextsOf(rows[r])
            /\ \A k \in 1..Len(pdf.ops) :
                  pdf.ops[k].row \in start_row..(start_row + n - 1)

C1_Witness ==
    /\ pc = "save"
    /\ start_row = 2
    /\ end_row = 3
    /\ Len(rows) = 3
    /\ Len(OpsOf("cell", "title")) = 2

\* The position in the page buffer of the last operation issued for row r in
\* a set of sections (0 when there is none).
LastIndex(r, secs) ==
    LET at == {k \in 1..Len(pdf.ops) : pdf.ops[k].row = r /\ pdf.ops[k].sec \in secs}
    IN  IF at = {} THEN 0 ELSE CHOOSE k \in at : \A m \in at : m <= k

\* The position of the first such operation (0 when there is none).
FirstIndex(r, secs) ==
    LET at == {k \in 1..Len(pdf.ops) : pdf.ops[k].row = r /\ pdf.ops[k].sec \in secs}
    IN  IF at = {} THEN 0 ELSE CHOOSE k \in at : \A m \in at : k <= m

Content == {"title", "problem_heading", "problem", "problem_placeholder",
            "code_heading", "code", "code_placeholder"}

\* C2: after the loop the document holds exactly end - start separators: one
\* after the content of every rendered record but the last, before the title
\* of the next record, and none after the last record.
C2_SeparatorsBetweenRecords ==
    Rendered =>
        /\ Len(OpsOf("cell", "separator")) = end_row - start_row
        /\ \A r \in start_row..end_row :
              LET seps == SelectSeq(pdf.ops, LAMBDA o :
                              o.op = "cell" /\ o.sec = "separator" /\ o.row = r)
              IN  IF r < end_row
                  THEN /\ Len(seps) = 1
                       /\ LastIndex(r, Content) < FirstIndex(r, {"separator"})
                       /\ LastIndex(r, {"separator"}) < FirstIndex(r + 1, {"title"})
                  ELSE Len(seps) = 0

C2_Witness ==
    /\ pc = "save"
    /\ start_row = 1
    /\ end_row = 3
    /\ Len(OpsOf("cell", "separator")) = 2

\* The range is not one with 1 <= start <= end <= total.
InvalidRange == start_row < 1 \/ start_row > end_row \/ end_row > Len(rows)

RangeErrors == {"start_out_of_range", "end_invalid"}

\* C3: a call with an invalid range on a readable file composes no page and
\* never writes the destination, and it ends returning False with a range
\* error message.
C3_InvalidRangeRejected ==
    (csv = "ok" /\ InvalidRange) =>
        /\ pc \in {"start", "done"}
        /\ pdf = NewPdf
        /\ output_pdf.state = "absent"
        /\ pc = "done" => (ret = "False" /\ printed \in RangeErrors)

C3_Witness ==
    /\ pc = "done"
    /\ start_row = 0
    /\ Len(rows) > 0
    /\ printed = "start_out_of_range"

\* C4 (as claimed): a call on a readable file without records ends with an
\* outcome of its own, one that is not the range error of an invalid start or
\* end.
C4_EmptyInputDistinctFromRangeError ==
    (csv = "ok" /\ rows = <<>> /\ pc = "done") => printed \notin RangeErrors

\* C5: a call that returns True has left the complete document at the
\* destination; when pdf.output fails the call returns False with the output
\* error message, whatever was left at the destination (nothing, or a part of
\* the document), so a destination that is not the complete document is never
\* reported as a success.
C5_NoFailedOutputReportedValid ==
    pc = "done" =>
        /\ ret = "True" =>
              (output_pdf.state = "complete" /\ output_pdf.doc = pdf.ops
               /\ printed = "pdf_generated")
        /\ output_pdf.state # "complete" => ret = "False"
        /\ output_pdf.state = "partial" => printed = "pdf_error"

C5_Witness ==
    /\ pc = "done"
    /\ output_pdf.state = "partial"
    /\ printed = "pdf_error"
    /\ pdf.page > 0

\* A value without content: absent, None, empty or whitespace only.
NoContent(row, key) ==
    LET v == Get(row, key, <<>>)
    IN  v = NoneVal \/ v = <<>> \/ IsBlank(v)

\* The number of operations of one kind and section issued for row r.
Count(r, kind, sec) ==
    Cardinality({k \in 1..Len(pdf.ops) :
        pdf.ops[k].row = r /\ pdf.ops[k].op = kind /\ pdf.ops[k].sec = sec})

\* C6: a selected record with neither text nor code gets its title line, both
\* section headings and a placeholder line in each section (and no text or
\* code line); the loop goes on to the next record, and the call does not end
\* with an error on its account.
C6_EmptyRecordGetsPlaceholders ==
    \A r \in start_row..(i - 1) :
        (Rendering /\ NoContent(rows[r], "refined_problem")
                   /\ NoContent(rows[r], "java_code")) =>
            /\ Count(r, "cell", "title") = 1
            /\ Count(r, "cell", "problem_heading") = 1
            /\ Count(r, "cell", "problem_placeholder") = 1
            /\ Count(r, "cell", "code_heading") = 1
            /\ Count(r, "cell", "code_placeholder") = 1
            /\ Count(r, "cell", "problem") = 0
            /\ Count(r, "cell", "code") = 0
            /\ Count(r, "ln", "code") = 0
            /\ FirstIndex(r, {"title"}) < FirstIndex(r, {"problem_heading"})
            /\ FirstIndex(r, {"problem_heading"}) < FirstIndex(r, {"problem_placeholder"})
            /\ FirstIndex(r, {"problem_placeholder"}) < FirstIndex(r, {"code_heading"})
            /\ FirstIndex(r, {"code_heading"}) < FirstIndex(r, {"code_placeholder"})
            /\ (r < end_row /\ i > r + 1) => Count(r + 1, "cell", "title") = 1
            /\ (r < end_row /\ i = r + 1) => pc = "loop"
            /\ pc = "done" => printed \in {"pdf_generated", "pdf_error"}

C6_Witness ==
    /\ pc = "save"
    /\ \E r \in start_row..(end_row - 1) :
          /\ "refined_problem" \in DOMAIN rows[r]
          /\ rows[r]["refined_problem"] = <<SP>>
          /\ "java_code" \in DOMAIN rows[r]
          /\ rows[r]["java_code"] = NoneVal
          /\ Count(r, "cell", "problem_placeholder") = 1
          /\ Count(r + 1, "cell", "title") = 1

\* The cells and vertical steps of the code section of row r, in order.
CodeLineOps(r) ==
    SelectSeq(pdf.ops, LAMBDA o : o.row = r /\ o.sec = "code" /\ o.op \in {"cell", "ln"})

\* C7: for a rendered record with a non-empty code, the code section holds
\* exactly one line per source line (the segments between newlines), in source
\* order, each 6 high in Courier 10: a line with text is one cell showing it
\* (leading spaces kept), a blank line is one empty step; each line lies one
\* line height below the one before it, or at the top of the next page.
C7_OneRenderedLinePerCodeLine ==
    \A r \in start_row..(i - 1) :
        (Rendering /\ ~NoContent(rows[r], "java_code")) =>
            LET lines == Split(rows[r]["java_code"])
                shown == CodeLineOps(r)
            IN  /\ Len(shown) = Len(lines)
                /\ \A k \in 1..Len(shown) :
                      /\ shown[k].h = 6
                      /\ shown[k].font = <<"Courier", "", 10>>
                      /\ IF IsBlank(lines[k])
                         THEN shown[k].op = "ln" /\ shown[k].txt = <<>>
                         ELSE shown[k].op = "cell" /\ shown[k].txt = RStrip(lines[k])
                      /\ k > 1 =>
                            \/ /\ shown[k].page = shown[k - 1].page
                               /\ shown[k].y = shown[k - 1].y + 6
                            \/ /\ shown[k].page = shown[k - 1].page + 1
                               /\ shown[k].y = TopMargin

C7_Witness ==
    /\ pc = "save"
    /\ \E r \in start_row..end_row :
          /\ "java_code" \in DOMAIN rows[r]
          /\ rows[r]["java_code"] = <<"x", NL, NL, "x">>
          /\ Len(CodeLineOps(r)) = 3
          /\ CodeLineOps(r)[2].op = "ln"

\* The number of words of a text.
RECURSIVE Words(_)
Words(s) ==
    IF s = <<>> THEN 0 ELSE (IF Head(s) = "w" THEN 1 ELSE 0) + Words(Tail(s))

RECURSIVE WordsOfAll(_)
WordsOfAll(texts) ==
    IF texts = <<>> THEN 0 ELSE Words(Head(texts)) + WordsOfAll(Tail(texts))

\* C8: the page index starts at 1 and grows by one at each page break; a cell
\* that would pass the bottom limit of its page is placed at the top of a new
\* page instead, so every cell lies within its page; and the lines of every
\* rendered record (the wrapped lines of its text, the lines of its code) are
\* each placed exactly once, in order.
C8_PaginationKeepsEveryLine ==
    Rendering =>
        /\ pdf.page = (IF pdf.ops = <<>> THEN 0 ELSE pdf.ops[Len(pdf.ops)].page)
        /\ \A k \in 1..Len(pdf.ops) :
              LET o == pdf.ops[k]
                  before == IF k = 1 THEN 0 ELSE pdf.ops[k - 1].page
              IN  /\ o.page = before + (IF o.op = "add_page" THEN 1 ELSE 0)
                  /\ o.page >= 1
                  /\ o.op = "cell" => (o.y >= TopMargin /\ o.y + o.h <= PageBreakTrigger)
                  /\ (o.op = "add_page" /\ o.sec = "auto") =>
                        /\ k < Len(pdf.ops)
                        /\ pdf.ops[k + 1].op = "cell"
                        /\ pdf.ops[k + 1].y = TopMargin
                        /\ pdf.ops[k - 1].y + pdf.ops[k - 1].h + pdf.ops[k + 1].h
                              > PageBreakTrigger
        /\ \A r \in start_row..(i - 1) :
              /\ CellTexts(r, "code") = CodeTextsOf(rows[r])
              /\ CellTexts(r, "problem") =
                    IF NoContent(rows[r], "refined_problem") THEN <<>>
                    ELSE WrapChunks(rows[r]["refined_problem"], <<>>, <<>>, WrapWidth)
              /\ ~NoContent(rows[r], "refined_problem") =>
                    WordsOfAll(CellTexts(r, "problem")) = Words(rows[r]["refined_problem"])
              /\ LastIndex(r, {"title"}) < FirstIndex(r, {"problem_heading"})
              /\ LastIndex(r, {"problem_heading"})
                    < FirstIndex(r, {"problem", "problem_placeholder"})
              /\ LastIndex(r, {"problem", "problem_placeholder"})
                    < FirstIndex(r, {"code_heading"})
              /\ LastIndex(r, {"code_heading"}) < FirstIndex(r, {"code", "code_placeholder"})

C8_Witness ==
    /\ pc = "save"
    /\ end_row > start_row
    /\ \E k \in 3..Len(pdf.ops) :
          /\ pdf.ops[k].op = "cell"
          /\ pdf.ops[k].sec = "code"
          /\ pdf.ops[k].y = TopMargin
          /\ pdf.ops[k - 1].op = "add_page"
          /\ pdf.ops[k - 1].sec = "auto"
          /\ pdf.ops[k - 2].sec = "code"
          /\ pdf.ops[k].page = pdf.ops[k - 2].page + 1

\* A page break before a section heading is reached as well.
C8_HeadingBreakReached ==
    \E k \in 2..Len(pdf.ops) :
        /\ pdf.ops[k].op = "cell"
        /\ pdf.ops[k].sec = "code_heading"
        /\ pdf.ops[k - 1].op = "add_page"
        /\ pdf.ops[k - 1].sec = "auto"

\* C9 (as claimed): every page of a document that was written carries a
\* page-number stamp in its footer.
C9_EveryPageHasPageNumber ==
    (pc = "done" /\ output_pdf.state = "complete") =>
        \A n \in 1..pdf.page :
            \E k \in 1..Len(output_pdf.doc) :
                output_pdf.doc[k].sec = "footer" /\ output_pdf.doc[k].page = n

\* C10 (as claimed): a code line longer than the content width is continued
\* on further lines, so no rendered code line is longer than the content width.
C10_LongCodeLinesWrapped ==
    Rendering =>
        \A k \in 1..Len(pdf.ops) :
            (pdf.ops[k].op = "cell" /\ pdf.ops[k].sec = "code") =>
                Len(pdf.ops[k].txt) <= PageCols

\* C11 (as claimed): a record's title does not by itself begin a new page, so
\* only the first record of the selection is preceded by an explicit page
\* start.
C11_TitleStartsNoPage ==
    Rendering =>
        \A k \in 1..Len(pdf.ops) :
            (pdf.ops[k].op = "add_page" /\ pdf.ops[k].sec = "explicit") =>
                pdf.ops[k].row = start_row

\* C11 (amended): the layout is one page per record.  Every record's title,
\* the first one included, is the first thing on a page started for it,
\* whatever room the page before had left, and no page holds operations of
\* two records.
C11_OnePagePerRecord ==
    Rendering =>
        /\ \A k \in 1..Len(pdf.ops) :
              (pdf.ops[k].op = "cell" /\ pdf.ops[k].sec = "title") =>
                  /\ k > 1
                  /\ pdf.ops[k - 1].op = "add_page"
                  /\ pdf.ops[k - 1].sec = "explicit"
                  /\ pdf.ops[k - 1].row = pdf.ops[k].row
                  /\ pdf.ops[k].y = TopMargin
        /\ \A k, m \in 1..Len(pdf.ops) :
              pdf.ops[k].page = pdf.ops[m].page => pdf.ops[k].row = pdf.ops[m].row

\* Two records are rendered, and the page the first one ends on had room for
\* the title of the second.
C11_Witness ==
    /\ pc = "save"
    /\ \E k \in 2..Len(pdf.ops) :
          /\ pdf.ops[k].op = "add_page"
          /\ pdf.ops[k].sec = "explicit"
          /\ pdf.ops[k].row = start_row + 1
          /\ pdf.ops[k - 1].y + pdf.ops[k - 1].h + 10 <= PageBreakTrigger

\* ------------------------------------------------------------ enrichment
\* The loop of process_csv_file is over.
AfterLoop == e_pc \in {"write", "done"} /\ e_rows # <<>>

\* The refined_problem of a row, EMissing if the row has none.
RefinedOf(row) ==
    IF "refined_problem" \in DOMAIN row THEN row["refined_problem"] ELSE EMissing

\* Row `n` of the input already has a refined_problem with text in it.
AlreadyRefined(n) ==
    /\ RefinedOf(input_csv.rows[n]) # EMissing
    /\ ~IsEmptyValue(RefinedOf(input_csv.rows[n]))

\* The model was called for row `n` in run `r`.
CalledIn(r, n) ==
    \E c \in 1..Len(api_calls) : api_calls[c].run = r /\ api_calls[c].row = n

\* The model was called for row `n` in this run.
Called(n) == CalledIn(run, n)

\* C12: in process_csv_file, a row inside the processed range whose
\* refined_problem already has text is skipped: the model is not called for it
\* and its refined_problem is kept as it was; only the rows with an empty
\* refined_problem are filled.
C12_RefinedRowsSkipped ==
    AfterLoop =>
        \A n \in lo..hi :
            AlreadyRefined(n) =>
                /\ ~Called(n)
                /\ RefinedOf(e_rows[n]) = RefinedOf(input_csv.rows[n])

\* The cleaned README of row `n`.
CleanedOf(n) == clean_text_markdown(ReadmeOf(input_csv.rows[n]))

\* Row `n` has been dealt with by the loop: skipped, refined without the
\* model, or given to the model.
Handled(n) ==
    LET row == LoadRows(input_csv.rows, variant)[n]
    IN  IF ~ToProcess(row, variant) THEN ~Called(n) /\ e_rows[n] = row
        ELSE IF NeedsApi(ReadmeOf(row)) THEN Called(n)
        ELSE RefinedOf(e_rows[n]) = refine_problem_statement(ReadmeOf(row), ENone, variant)

\* The run went on after row `n`: the loop is at a later row, or it is over
\* and every later row of the range has been dealt with.
WentOnAfter(n) ==
    /\ e_pc \in {"loop", "write", "done"}
    /\ e_i > n
    /\ AfterLoop => \A m \in (n + 1)..hi : Handled(m)

\* C13 as stated: when the model returns no result for a README of ten words
\* or more, the refined_problem is the whole README as clean_text_markdown
\* leaves it, and the run goes on with the next row.
C13_FallbackIsCleanedText ==
    \A c \in 1..Len(api_calls) :
        (api_calls[c].run = run /\ api_calls[c].result = ENone) =>
            /\ RefinedOf(e_rows[api_calls[c].row]) = CleanedOf(api_calls[c].row)
            /\ WentOnAfter(api_calls[c].row)

\* C13: when the model returns no result for a README of ten words or more,
\* the refined_problem is the first 1000 characters (500 in refine.py) of the
\* README as clean_text_markdown leaves it, and the run goes on with the next
\* row.
C13_FallbackIsTruncatedCleanedText ==
    \A c \in 1..Len(api_calls) :
        (api_calls[c].run = run /\ api_calls[c].result = ENone) =>
            /\ RefinedOf(e_rows[api_calls[c].row]) =
                   Take(CleanedOf(api_calls[c].row),
                        IF variant = "groq" THEN GroqFallbackLimit ELSE OllamaFallbackLimit)
            /\ Chars(RefinedOf(e_rows[api_calls[c].row])) <=
                   (IF variant = "groq" THEN GroqFallbackLimit ELSE OllamaFallbackLimit)
            /\ WentOnAfter(api_calls[c].row)

\* The model failed for a row whose cleaned README is longer than the limit,
\* the next row was given to the model too, and the table was written.
C13_Witness ==
    /\ e_pc = "done"
    /\ e_printed = "saved"
    /\ \E c \in 1..Len(api_calls) :
          /\ api_calls[c].run = run
          /\ api_calls[c].result = ENone
          /\ api_calls[c].row < hi
          /\ Chars(CleanedOf(api_calls[c].row)) > GroqFallbackLimit
          /\ Chars(RefinedOf(output_csv.rows[api_calls[c].row])) = FallbackLimit(variant)
          /\ Called(api_calls[c].row + 1)

\* The model returned an empty text for row `n` in the first run.
EmptyResultInFirstRun(n) ==
    \E d \in 1..Len(api_calls) :
        api_calls[d].run = 1 /\ api_calls[d].row = n /\ api_calls[d].result = <<>>

\* C14 as stated: when usinggroq.py's process_csv_file is run again on the
\* table it wrote, over the same range, it makes no call to the model and
\* writes a table identical to its input, whatever the model returned in the
\* first run.
C14_SecondRunChangesNothing ==
    (variant = "groq" /\ run = 2) =>
        /\ \A n \in 1..Len(input_csv.rows) : ~CalledIn(2, n)
        /\ e_printed = "saved" => output_csv.rows = input_csv.rows

\* C14: when usinggroq.py's process_csv_file is run again on the table it
\* wrote, over the same range, it calls the model for the rows for which the
\* model returned an empty text in the first run, and for no other row; the
\* table it writes has the rows of its input, identical but for the
\* refined_problem of those rows. With no empty answer in the first run the
\* second run makes no call and writes a table identical to its input.
C14_SecondRunRepeatsEmptyResultsOnly ==
    (variant = "groq" /\ run = 2) =>
        /\ \A n \in 1..Len(input_csv.rows) :
              /\ CalledIn(2, n) => EmptyResultInFirstRun(n)
              /\ (AfterLoop /\ EmptyResultInFirstRun(n)) => CalledIn(2, n)
        /\ e_printed = "saved" =>
              /\ Len(output_csv.rows) = Len(input_csv.rows)
              /\ \A n \in 1..Len(input_csv.rows) :
                    \/ output_csv.rows[n] = input_csv.rows[n]
                    \/ /\ EmptyResultInFirstRun(n)
                       /\ output_csv.rows[n] =
                              SetField(input_csv.rows[n], "refined_problem",
                                       RefinedOf(output_csv.rows[n]))
        /\ (\A n \in 1..Len(input_csv.rows) : ~EmptyResultInFirstRun(n)) =>
              /\ \A n \in 1..Len(input_csv.rows) : ~CalledIn(2, n)
              /\ e_printed = "saved" => output_csv.rows = input_csv.rows

\* The second run has written its table: one row had an answer with text in the
\* first run and is skipped, another had an empty answer, is given to the model
\* again and gets a text, so the table differs from the input.
C14_Witness ==
    /\ variant = "groq"
    /\ run = 2
    /\ e_printed = "saved"
    /\ \E n, m \in 1..Len(input_csv.rows) :
          /\ EmptyResultInFirstRun(n)
          /\ CalledIn(2, n)
          /\ output_csv.rows[n] # input_csv.rows[n]
          /\ CalledIn(1, m)
          /\ ~EmptyResultInFirstRun(m)
          /\ ~CalledIn(2, m)
          /\ output_csv.rows[m] = input_csv.rows[m]

\* The second run made no call and wrote a table identical to its input, a
\* README that cleans to an empty text included.
C14_IdempotentRunReached ==
    /\ variant = "groq"
    /\ run = 2
    /\ e_printed = "saved"
    /\ \E n \in lo..hi : CalledIn(1, n)
    /\ \E n \in lo..hi :
          /\ ~IsEmptyValue(ReadmeOf(input_csv.rows[n]))
          /\ CleanedOf(n) = <<>>
          /\ RefinedOf(output_csv.rows[n]) = <<>>
    /\ \A n \in 1..Len(input_csv.rows) : ~CalledIn(2, n)
    /\ output_csv.rows = input_csv.rows

\* Row `n` is inside the range asked for, clamped to the table.
InRange(n) ==
    /\ n >= (IF arg_start < 1 THEN 1 ELSE arg_start)
    /\ n <= (IF arg_end > Len(input_csv.rows) THEN Len(input_csv.rows) ELSE arg_end)

\* The text of a field in the file read: a field the row does not have reads
\* as empty, a field beyond the header is in the list of such fields.
FieldText(v) ==
    IF v = ENone THEN <<>>
    ELSE IF IsList(v) THEN <<Tok("w", v[1].n)>>
    ELSE v

\* Field `c` of row `n` is written as it was read.
Kept(n, c) ==
    LET d == IF c = RestKey THEN "" ELSE c
    IN  /\ d \in DOMAIN output_csv.rows[n]
        /\ output_csv.rows[n][d] = FieldText(input_csv.rows[n][c])

\* The fields row `n` is written with and was not read with are empty.
NothingAdded(n) ==
    \A d \in DOMAIN output_csv.rows[n] :
        \/ d \in DOMAIN input_csv.rows[n]
        \/ d = "" /\ RestKey \in DOMAIN input_csv.rows[n]
        \/ output_csv.rows[n][d] = <<>>

\* Rows written as they were read, but for the refined_problem of the rows
\* inside the range.
FrameKept ==
    /\ Len(output_csv.rows) = Len(input_csv.rows)
    /\ \A n \in 1..Len(input_csv.rows) :
          /\ \A c \in DOMAIN input_csv.rows[n] :
                (c = "refined_problem" /\ InRange(n)) \/ Kept(n, c)
          /\ InRange(n) \/ NothingAdded(n)

\* C15: usinggroq.py's process_csv_file changes only the refined_problem of the
\* rows inside the range [max(start,1), min(end,total)]: the table written has
\* the rows of the table read, in the same order, every row outside the range
\* with the text of every field unchanged (a refined_problem column added to
\* the table being empty there), every row inside it with every other field
\* unchanged.
C15_OnlyRefinedProblemInRangeChanges ==
    (variant = "groq" /\ e_printed = "saved") => FrameKept

\* No row of the table read has more fields than the header has columns.
NoExtraFields ==
    \A n \in 1..Len(input_csv.rows) : RestKey \notin DOMAIN input_csv.rows[n]

\* The same holds of every table whose rows have no more fields than the
\* header has columns.
C15_FrameWithoutExtraFields ==
    (variant = "groq" /\ e_printed = "saved" /\ NoExtraFields) => FrameKept

\* A table without extra fields was written, a row inside the range filled
\* and a row outside it kept.
C15_FrameReached ==
    /\ variant = "groq"
    /\ e_printed = "saved"
    /\ NoExtraFields
    /\ \E n, m \in 1..Len(input_csv.rows) :
          /\ InRange(n)
          /\ RefinedOf(output_csv.rows[n]) # FieldText(RefinedOf(input_csv.rows[n]))
          /\ ~InRange(m)
          /\ IsEmptyValue(RefinedOf(input_csv.rows[m]))
          /\ output_csv.rows[m] = input_csv.rows[m]

====
